---- MODULE Spec2Model ----
(***************************************************************************)
(* NFTTippingJarFHE (src/contracts/NFT_Tipping_Jar.sol): the batch         *)
(* lifecycle, the encrypted aggregation of tips and the decryption         *)
(* request / callback protocol, as a state machine.  One action per        *)
(* external function.  The error a call reverts with is the value of the   *)
(* function's ...Error operator; a reverting call changes nothing.         *)
(***************************************************************************)
EXTENDS Integers, Sequences, FiniteSets, TLC

\* ------------------------------------------------------------------ bounds
\* Batches openBatch may create besides the sentinel batch 0.
MaxBatches == 2
\* Length of the tips ledger.
MaxTips == 2
\* Decryption requests the oracle hands a requestId to.
MaxRequests == 2
\* Times the block timestamp advances.
MaxTicks == 1
\* Events of owner-only administration calls.
MaxAdmin == 1
\* block.timestamp at deployment.
DeployTime == 1000

\* ------------------------------------------------------- program constants
\* constructor: cooldownSeconds = 60
DefaultCooldown == 60

\* ------------------------------------------------------------- value types
\* msg.sender values; Deployer is the constructor's msg.sender.
Deployer == "a1"
Address == {"a1", "a2"}
\* address(this)
ThisContract == "jar"

\* uint256 values.  A value v is written as the integer v when v < 2^255 and
\* as v - 2^256 otherwise, so the largest uint256 value is written -1.  Only
\* values within 2^30 of either end of the range occur.
MaxUint256 == 0 - 1
\* a + b exceeds 2^256 - 1: Solidity's checked addition reverts with Panic.
AddOverflows(a, b) ==
    \/ a < 0 /\ b < 0
    \/ a < 0 /\ b >= 0 /\ a + b >= 0
    \/ a >= 0 /\ b < 0 /\ a + b >= 0
\* a < b as unsigned 256-bit values.
Lt256(a, b) == IF (a >= 0) = (b >= 0) THEN a < b ELSE a >= 0

\* uint32 plaintexts, as two 16-bit limbs <<hi, lo>>.
Limb == 2 ^ 16
\* The exact sum of two plaintexts, as <<carry, hi, lo>>.
ExactAdd32(a, b) ==
    LET lo == a[2] + b[2]
        hi == a[1] + b[1] + (lo \div Limb)
    IN  <<hi \div Limb, hi % Limb, lo % Limb>>
\* FHE.add on euint32 plaintexts: the sum modulo 2^32.
WrapAdd32(a, b) == LET s == ExactAdd32(a, b) IN <<s[2], s[3]>>

\* Ciphertext handles (euint32, a bytes32 word).  The zero word is the
\* uninitialized handle; an input ciphertext is a one-element sequence naming
\* it; the handle FHE.add returns is determined by its two operands in order.
ZeroHandle == << >>
AmountInputs == {"c1", "cbig"}
MessageInputs == {"m"}
PlainOf(c) ==
    CASE c = "c1" -> <<0, 1>>
      [] c = "cbig" -> <<Limb - 1, Limb - 2>>
      [] OTHER -> <<0, 0>>
AmountHandles == {ZeroHandle} \cup {<<c>> : c \in AmountInputs}
MessageHandles == {ZeroHandle} \cup {<<c>> : c \in MessageInputs}
\* euint32.isInitialized
isInitialized(h) == h # ZeroHandle
\* FHE.add(a, b): a new handle
FHEadd(a, b) == a \o b
\* The plaintext the coprocessor holds for an initialized handle.
RECURSIVE Decrypt(_)
Decrypt(h) ==
    IF h = ZeroHandle THEN <<0, 0>>
    ELSE IF Len(h) = 1 THEN PlainOf(h[1])
    ELSE WrapAdd32(Decrypt(SubSeq(h, 1, Len(h) - 1)), PlainOf(h[Len(h)]))

\* abi.encode(uint32): one 32-byte word; abi.decode(cleartexts, (uint32)).
AbiEncode32(v) == <<[word |-> v]>>
\* abi.decode that keeps the low 16 bits of the word only.
AbiDecode32LowHalf(bytes) == <<0, bytes[1].word[2]>>
AbiDecode32(bytes) == bytes[1].word

\* _hashCiphertexts: keccak256(abi.encode(cts, address(this))), collision free.
\* The zero bytes32 is no image of it.
ZeroHash == << >>
_hashCiphertexts(cts) == <<"keccak256", cts, ThisContract>>

BatchIds == 0..MaxBatches
\* requestIds: the counter values handed out, and one never handed out.
RequestIds == 0..MaxRequests
EmptyContext == [batchId |-> 0, stateHash |-> ZeroHash, processed |-> FALSE]

VARIABLES
    owner,                      \* address public owner
    isProvider,                 \* mapping(address => bool)
    paused,                     \* bool public paused
    cooldownSeconds,            \* uint256 public cooldownSeconds
    lastSubmissionTime,         \* mapping(address => uint256)
    lastDecryptionRequestTime,  \* mapping(address => uint256)
    tips,                       \* Tip[] public tips
    batches,                    \* Batch[] public batches (index i+1 holds batch i)
    batchTipCount,              \* mapping(uint256 => uint256)
    batchTotalEncryptedAmount,  \* mapping(uint256 => uint256): handles
    decryptionContexts,         \* mapping(uint256 => DecryptionContext)
    counterRequest,             \* the FHE library's request counter
    oracleRequests,             \* requestId -> handles sent to the oracle
    adminLog,                   \* events of the administration functions, in order
    batchLog,                   \* BatchOpened and BatchClosed events, in order
    tipLog,                     \* TipSubmitted events, in order
    requestLog,                 \* DecryptionRequested events, in order
    completions,                \* per requestId, its DecryptionCompleted events
    blockTimestamp              \* block.timestamp

access == <<owner, isProvider, paused, cooldownSeconds>>
timers == <<lastSubmissionTime, lastDecryptionRequestTime>>
ledger == <<tips, batchTipCount, batchTotalEncryptedAmount>>
oracle == <<decryptionContexts, counterRequest, oracleRequests>>
storage == <<access, timers, ledger, batches, oracle>>
logs == <<adminLog, batchLog, tipLog, requestLog, completions>>
vars == <<storage, logs, blockTimestamp>>

\* ---------------------------------------------------------------- helpers
\* batches[batches.length - 1]
currentBatch == batches[Len(batches)]
\* batches[id] for id < batches.length
BatchAt(id) == batches[id + 1]

\* revert with error err: every storage write of the call is undone and no
\* event is logged, so the call leaves no trace.
Revert(err) == UNCHANGED vars

\* modifiers, "ok" when the body is entered
onlyOwner(sender) == IF sender # owner THEN "NotOwner" ELSE "ok"
\* onlyProvider that lets every caller through.
onlyProviderUnchecked(sender) == "ok"
onlyProvider(sender) == IF ~isProvider[sender] THEN "NotProvider" ELSE "ok"
\* whenNotPaused that lets every call through.
whenNotPausedUnchecked == "ok"
whenNotPaused == IF paused THEN "PausedState" ELSE "ok"
CooldownCheck(last) ==
    IF AddOverflows(last, cooldownSeconds) THEN "Panic"
    ELSE IF Lt256(blockTimestamp, last + cooldownSeconds) THEN "CooldownActive"
    ELSE "ok"
checkSubmissionCooldown(sender) == CooldownCheck(lastSubmissionTime[sender])
\* checkDecryptionCooldown reading the submission timer.
checkDecryptionCooldownOnSubmissionTimer(sender) == CooldownCheck(lastSubmissionTime[sender])
checkDecryptionCooldown(sender) == CooldownCheck(lastDecryptionRequestTime[sender])
\* The first check of a list that fails.
RECURSIVE FirstError(_)
FirstError(checks) ==
    IF checks = << >> THEN "ok"
    ELSE IF Head(checks) # "ok" THEN Head(checks)
    ELSE FirstError(Tail(checks))
\* _initIfNeeded(euint32)
_initIfNeeded(val) == IF ~isInitialized(val) THEN "NotInitialized" ELSE "ok"

\* ------------------------------------------------------------ constructor
Init ==
    /\ owner = Deployer
    /\ isProvider = [a \in Address |-> a = Deployer]
    /\ paused = FALSE
    /\ cooldownSeconds = DefaultCooldown
    /\ lastSubmissionTime = [a \in Address |-> 0]
    /\ lastDecryptionRequestTime = [a \in Address |-> 0]
    /\ tips = << >>
    /\ batches = <<[id |-> 0, isOpen |-> FALSE, startTime |-> 0, closeTime |-> 0]>>
    /\ batchTipCount = [b \in BatchIds |-> 0]
    /\ batchTotalEncryptedAmount = [b \in BatchIds |-> ZeroHandle]
    /\ decryptionContexts = [r \in RequestIds |-> EmptyContext]
    /\ counterRequest = 0
    /\ oracleRequests = [r \in RequestIds |-> << >>]
    /\ adminLog = << >>
    /\ batchLog = << >>
    /\ tipLog = << >>
    /\ requestLog = << >>
    /\ completions = [r \in RequestIds |-> << >>]
    /\ blockTimestamp = DeployTime

\* ---------------------------------------------------------- administration
\* emit of an administration function; the model follows MaxAdmin of them.
EmitAdmin(event) ==
    /\ Len(adminLog) < MaxAdmin
    /\ adminLog' = Append(adminLog, event)

\* transferOwnership that also makes the new owner a provider.
transferOwnershipGrantingProvider(sender, newOwner) ==
    LET err == onlyOwner(sender) IN
    IF err # "ok" THEN Revert(err)
    ELSE /\ owner' = newOwner
         /\ isProvider' = [isProvider EXCEPT ![newOwner] = TRUE]
         /\ EmitAdmin(<<"OwnershipTransferred", owner, newOwner>>)
         /\ UNCHANGED <<paused, cooldownSeconds, timers, ledger, batches,
                        oracle, batchLog, tipLog, requestLog, completions,
                        blockTimestamp>>

transferOwnership(sender, newOwner) ==
    LET err == onlyOwner(sender) IN
    IF err # "ok" THEN Revert(err)
    ELSE /\ owner' = newOwner
         /\ EmitAdmin(<<"OwnershipTransferred", owner, newOwner>>)
         /\ UNCHANGED <<isProvider, paused, cooldownSeconds, timers, ledger, batches,
                        oracle, batchLog, tipLog, requestLog, completions,
                        blockTimestamp>>

\* addProvider without its isProvider test.
addProviderUnconditional(sender, provider) ==
    LET err == onlyOwner(sender) IN
    IF err # "ok" THEN Revert(err)
    ELSE /\ isProvider' = [isProvider EXCEPT ![provider] = TRUE]
         /\ EmitAdmin(<<"ProviderAdded", provider>>)
         /\ UNCHANGED <<owner, paused, cooldownSeconds, timers, ledger, batches,
                        oracle, batchLog, tipLog, requestLog, completions,
                        blockTimestamp>>

addProvider(sender, provider) ==
    LET err == onlyOwner(sender) IN
    IF err # "ok" THEN Revert(err)
    ELSE IF ~isProvider[provider]
    THEN /\ isProvider' = [isProvider EXCEPT ![provider] = TRUE]
         /\ EmitAdmin(<<"ProviderAdded", provider>>)
         /\ UNCHANGED <<owner, paused, cooldownSeconds, timers, ledger, batches,
                        oracle, batchLog, tipLog, requestLog, completions,
                        blockTimestamp>>
    ELSE UNCHANGED vars

removeProvider(sender, provider) ==
    LET err == onlyOwner(sender) IN
    IF err # "ok" THEN Revert(err)
    ELSE IF isProvider[provider]
    THEN /\ isProvider' = [isProvider EXCEPT ![provider] = FALSE]
         /\ EmitAdmin(<<"ProviderRemoved", provider>>)
         /\ UNCHANGED <<owner, paused, cooldownSeconds, timers, ledger, batches,
                        oracle, batchLog, tipLog, requestLog, completions,
                        blockTimestamp>>
    ELSE UNCHANGED vars

\* pause without its whenNotPaused modifier.
pauseErrorNoPausedCheck(sender) == FirstError(<<onlyOwner(sender)>>)

pauseError(sender) == FirstError(<<onlyOwner(sender), whenNotPaused>>)

pause(sender) ==
    LET err == pauseError(sender) IN
    IF err # "ok" THEN Revert(err)
    ELSE /\ paused' = TRUE
         /\ EmitAdmin(<<"Paused", sender>>)
         /\ UNCHANGED <<owner, isProvider, cooldownSeconds, timers, ledger, batches,
                        oracle, batchLog, tipLog, requestLog, completions,
                        blockTimestamp>>

unpause(sender) ==
    LET err == onlyOwner(sender) IN
    IF err # "ok" THEN Revert(err)
    ELSE /\ paused' = FALSE
         /\ EmitAdmin(<<"Unpaused", sender>>)
         /\ UNCHANGED <<owner, isProvider, cooldownSeconds, timers, ledger, batches,
                        oracle, batchLog, tipLog, requestLog, completions,
                        blockTimestamp>>

\* The values setCooldownSeconds is called with.
CooldownInputs == {0, DefaultCooldown, MaxUint256}

setCooldownSeconds(sender, newCooldownSeconds) ==
    LET err == onlyOwner(sender) IN
    IF err # "ok" THEN Revert(err)
    ELSE /\ cooldownSeconds' = newCooldownSeconds
         /\ EmitAdmin(<<"CooldownSecondsSet", cooldownSeconds, newCooldownSeconds>>)
         /\ UNCHANGED <<owner, isProvider, paused, timers, ledger, batches,
                        oracle, batchLog, tipLog, requestLog, completions,
                        blockTimestamp>>

\* ---------------------------------------------------------- batch lifecycle
\* openBatch without its BatchOpen check.
openBatchErrorNoOpenCheck(sender) == FirstError(<<onlyProvider(sender), whenNotPaused>>)

openBatchError(sender) ==
    FirstError(<<onlyProvider(sender), whenNotPaused,
                 IF currentBatch.isOpen THEN "BatchOpen" ELSE "ok">>)

\* openBatch that numbers the new batch batches.length - 1.
openBatchReusingLastId(sender) ==
    LET err == openBatchError(sender)
        newBatchId == Len(batches) - 1
    IN  IF err # "ok" THEN Revert(err)
        ELSE /\ Len(batches) <= MaxBatches
             /\ batches' = Append(batches, [id |-> newBatchId, isOpen |-> TRUE,
                                            startTime |-> blockTimestamp, closeTime |-> 0])
             /\ batchLog' = Append(batchLog, <<"BatchOpened", newBatchId, blockTimestamp>>)
             /\ UNCHANGED <<access, timers, ledger, oracle, adminLog, tipLog,
                            requestLog, completions, blockTimestamp>>

openBatch(sender) ==
    LET err == openBatchError(sender)
        newBatchId == Len(batches)
    IN  IF err # "ok" THEN Revert(err)
        ELSE /\ newBatchId <= MaxBatches
             /\ batches' = Append(batches, [id |-> newBatchId, isOpen |-> TRUE,
                                            startTime |-> blockTimestamp, closeTime |-> 0])
             /\ batchLog' = Append(batchLog, <<"BatchOpened", newBatchId, blockTimestamp>>)
             /\ UNCHANGED <<access, timers, ledger, oracle, adminLog, tipLog,
                            requestLog, completions, blockTimestamp>>

\* closeBatch without its BatchNotOpen check.
closeBatchErrorNoOpenCheck(sender) == FirstError(<<onlyProvider(sender), whenNotPaused>>)

closeBatchError(sender) ==
    FirstError(<<onlyProvider(sender), whenNotPaused,
                 IF ~currentBatch.isOpen THEN "BatchNotOpen" ELSE "ok">>)

closeBatch(sender) ==
    LET err == closeBatchError(sender) IN
    IF err # "ok" THEN Revert(err)
    ELSE /\ batches' = [batches EXCEPT ![Len(batches)] =
                           [@ EXCEPT !.isOpen = FALSE, !.closeTime = blockTimestamp]]
         /\ batchLog' = Append(batchLog, <<"BatchClosed", currentBatch.id, blockTimestamp,
                                           batchTipCount[currentBatch.id]>>)
         /\ UNCHANGED <<access, timers, ledger, oracle, adminLog, tipLog,
                        requestLog, completions, blockTimestamp>>

\* -------------------------------------------------------------- submitTip
\* submitTip without its BatchNotOpen check.
submitTipErrorNoOpenCheck(sender, encryptedAmount, encryptedMessagePart1, encryptedMessagePart2) ==
    FirstError(<<whenNotPaused, checkSubmissionCooldown(sender),
                 _initIfNeeded(encryptedAmount),
                 _initIfNeeded(encryptedMessagePart1),
                 _initIfNeeded(encryptedMessagePart2)>>)

\* submitTip without the _initIfNeeded of its third handle.
submitTipErrorUncheckedPart2(sender, encryptedAmount, encryptedMessagePart1, encryptedMessagePart2) ==
    FirstError(<<whenNotPaused, checkSubmissionCooldown(sender),
                 IF ~currentBatch.isOpen THEN "BatchNotOpen" ELSE "ok",
                 _initIfNeeded(encryptedAmount),
                 _initIfNeeded(encryptedMessagePart1)>>)

submitTipError(sender, encryptedAmount, encryptedMessagePart1, encryptedMessagePart2) ==
    FirstError(<<whenNotPaused, checkSubmissionCooldown(sender),
                 IF ~currentBatch.isOpen THEN "BatchNotOpen" ELSE "ok",
                 _initIfNeeded(encryptedAmount),
                 _initIfNeeded(encryptedMessagePart1),
                 _initIfNeeded(encryptedMessagePart2)>>)

\* The new running total without the seeding branch of line 175.
NewBatchTotalNoSeed(total, encryptedAmount) ==
    IF total = ZeroHandle THEN ZeroHandle ELSE FHEadd(total, encryptedAmount)

\* lines 175-181: the batch's new running total
NewBatchTotal(total, encryptedAmount) ==
    IF total = ZeroHandle THEN encryptedAmount ELSE FHEadd(total, encryptedAmount)

\* submitTip reporting tips.length as the index instead of tips.length - 1.
submitTipIndexAfterPush(sender, encryptedAmount, encryptedMessagePart1, encryptedMessagePart2) ==
    LET err == submitTipError(sender, encryptedAmount, encryptedMessagePart1,
                              encryptedMessagePart2)
        id == currentBatch.id
        tipIndex == Len(tips) + 1
    IN  IF err # "ok" THEN Revert(err)
        ELSE /\ Len(tips) < MaxTips
             /\ tips' = Append(tips, [tipper |-> sender,
                                      encryptedAmount |-> encryptedAmount,
                                      encryptedMessagePart1 |-> encryptedMessagePart1,
                                      encryptedMessagePart2 |-> encryptedMessagePart2])
             /\ batchTipCount' = [batchTipCount EXCEPT ![id] = @ + 1]
             /\ batchTotalEncryptedAmount' =
                    [batchTotalEncryptedAmount EXCEPT
                        ![id] = NewBatchTotal(@, encryptedAmount)]
             /\ lastSubmissionTime' = [lastSubmissionTime EXCEPT ![sender] = blockTimestamp]
             /\ tipLog' = Append(tipLog, <<"TipSubmitted", sender, id, tipIndex>>)
             /\ UNCHANGED <<access, lastDecryptionRequestTime, batches, oracle,
                            adminLog, batchLog, requestLog, completions,
                            blockTimestamp>>

submitTip(sender, encryptedAmount, encryptedMessagePart1, encryptedMessagePart2) ==
    LET err == submitTipError(sender, encryptedAmount, encryptedMessagePart1,
                              encryptedMessagePart2)
        id == currentBatch.id
        tipIndex == Len(tips)
    IN  IF err # "ok" THEN Revert(err)
        ELSE /\ Len(tips) < MaxTips
             /\ tips' = Append(tips, [tipper |-> sender,
                                      encryptedAmount |-> encryptedAmount,
                                      encryptedMessagePart1 |-> encryptedMessagePart1,
                                      encryptedMessagePart2 |-> encryptedMessagePart2])
             /\ batchTipCount' = [batchTipCount EXCEPT ![id] = @ + 1]
             /\ batchTotalEncryptedAmount' =
                    [batchTotalEncryptedAmount EXCEPT
                        ![id] = NewBatchTotal(@, encryptedAmount)]
             /\ lastSubmissionTime' = [lastSubmissionTime EXCEPT ![sender] = blockTimestamp]
             /\ tipLog' = Append(tipLog, <<"TipSubmitted", sender, id, tipIndex>>)
             /\ UNCHANGED <<access, lastDecryptionRequestTime, batches, oracle,
                            adminLog, batchLog, requestLog, completions,
                            blockTimestamp>>

\* ------------------------------------------------- decryption request
\* requestBatchTotalDecryption without its BatchOpen check.
requestBatchTotalDecryptionErrorNoOpenCheck(sender, batchId) ==
    LET gate == FirstError(<<onlyProvider(sender), whenNotPaused,
                             checkDecryptionCooldown(sender)>>)
    IN  IF gate # "ok" THEN gate
        ELSE IF batchId >= Len(batches) \/ batchId = 0 THEN "InvalidBatch"
        ELSE _initIfNeeded(batchTotalEncryptedAmount[batchId])

\* requestBatchTotalDecryption without the _initIfNeeded of the total.
requestBatchTotalDecryptionErrorNoInitCheck(sender, batchId) ==
    LET gate == FirstError(<<onlyProvider(sender), whenNotPaused,
                             checkDecryptionCooldown(sender)>>)
    IN  IF gate # "ok" THEN gate
        ELSE IF batchId >= Len(batches) \/ batchId = 0 THEN "InvalidBatch"
        ELSE IF BatchAt(batchId).isOpen THEN "BatchOpen"
        ELSE "ok"

requestBatchTotalDecryptionError(sender, batchId) ==
    LET gate == FirstError(<<onlyProvider(sender), whenNotPaused,
                             checkDecryptionCooldown(sender)>>)
    IN  IF gate # "ok" THEN gate
        ELSE IF batchId >= Len(batches) \/ batchId = 0 THEN "InvalidBatch"
        ELSE IF BatchAt(batchId).isOpen THEN "BatchOpen"
        ELSE _initIfNeeded(batchTotalEncryptedAmount[batchId])

\* The call with the requestId FHE.requestDecryption returns for it.
requestBatchTotalDecryptionAs(sender, batchId, requestId) ==
    LET err == requestBatchTotalDecryptionError(sender, batchId) IN
    IF err # "ok" THEN Revert(err)
    ELSE LET totalEncryptedAmount == batchTotalEncryptedAmount[batchId]
             cts == <<totalEncryptedAmount>>
             stateHash == _hashCiphertexts(cts)
         IN  /\ counterRequest < MaxRequests
             /\ counterRequest' = counterRequest + 1
             /\ oracleRequests' = [oracleRequests EXCEPT ![requestId] = cts]
             /\ decryptionContexts' =
                    [decryptionContexts EXCEPT
                        ![requestId] = [batchId |-> batchId, stateHash |-> stateHash,
                                        processed |-> FALSE]]
             /\ lastDecryptionRequestTime' =
                    [lastDecryptionRequestTime EXCEPT ![sender] = blockTimestamp]
             /\ requestLog' = Append(requestLog, <<"DecryptionRequested", requestId,
                                                   batchId, stateHash>>)
             /\ UNCHANGED <<access, lastSubmissionTime, ledger, batches, adminLog,
                            batchLog, tipLog, completions, blockTimestamp>>

\* The call when FHE.requestDecryption returns requestId 0 every time.
requestBatchTotalDecryptionReusingId(sender, batchId) ==
    requestBatchTotalDecryptionAs(sender, batchId, 0)

\* FHE.requestDecryption numbers the requests of the contract 0, 1, 2, ...
requestBatchTotalDecryption(sender, batchId) ==
    requestBatchTotalDecryptionAs(sender, batchId, counterRequest)

\* ------------------------------------------------------- oracle callback
\* The cleartexts the oracle answers request r with, and the proof it signs.
OracleCleartexts(r) == AbiEncode32(Decrypt(oracleRequests[r][1]))
KmsProof(r, cleartexts) == <<"kms", r, cleartexts>>
Requested == {r \in RequestIds : oracleRequests[r] # << >>}
\* What a caller of myCallback may pass: the oracle's answers, or its own.
CleartextInputs == {OracleCleartexts(r) : r \in Requested} \cup {AbiEncode32(<<0, 7>>)}
ProofInputs == {KmsProof(r, OracleCleartexts(r)) : r \in Requested} \cup {<<"forged">>}
\* FHE.checkSignatures: the proof is the oracle's signature of these
\* cleartexts for this request.
checkSignatures(requestId, cleartexts, proof) ==
    /\ requestId \in Requested
    /\ cleartexts = OracleCleartexts(requestId)
    /\ proof = KmsProof(requestId, cleartexts)

\* The fingerprint rebuilt from the latest batch instead of the context's.
currentStateHashOfLatestBatch(ctx) ==
    _hashCiphertexts(<<batchTotalEncryptedAmount[currentBatch.id]>>)

\* line 225: the fingerprint rebuilt from the storage of the context's batch
currentStateHash(ctx) == _hashCiphertexts(<<batchTotalEncryptedAmount[ctx.batchId]>>)

\* myCallback without its replay check.
myCallbackErrorNoReplayCheck(requestId, cleartexts, proof) ==
    LET ctx == decryptionContexts[requestId] IN
    IF ctx.batchId >= Len(batches) THEN "Panic"
    ELSE IF _initIfNeeded(batchTotalEncryptedAmount[ctx.batchId]) # "ok"
         THEN "NotInitialized"
    ELSE IF currentStateHash(ctx) # ctx.stateHash THEN "StateMismatch"
    ELSE IF ~checkSignatures(requestId, cleartexts, proof) THEN "InvalidProof"
    ELSE "ok"

\* myCallback without its fingerprint comparison.
myCallbackErrorNoHashCheck(requestId, cleartexts, proof) ==
    LET ctx == decryptionContexts[requestId] IN
    IF ctx.processed THEN "ReplayAttempt"
    ELSE IF ctx.batchId >= Len(batches) THEN "Panic"
    ELSE IF _initIfNeeded(batchTotalEncryptedAmount[ctx.batchId]) # "ok"
         THEN "NotInitialized"
    ELSE IF ~checkSignatures(requestId, cleartexts, proof) THEN "InvalidProof"
    ELSE "ok"

\* myCallback with the proof checked before the fingerprint.
myCallbackErrorProofFirst(requestId, cleartexts, proof) ==
    LET ctx == decryptionContexts[requestId] IN
    IF ctx.processed THEN "ReplayAttempt"
    ELSE IF ctx.batchId >= Len(batches) THEN "Panic"
    ELSE IF _initIfNeeded(batchTotalEncryptedAmount[ctx.batchId]) # "ok"
         THEN "NotInitialized"
    ELSE IF ~checkSignatures(requestId, cleartexts, proof) THEN "InvalidProof"
    ELSE IF currentStateHash(ctx) # ctx.stateHash THEN "StateMismatch"
    ELSE "ok"

\* myCallback without the _initIfNeeded of the current total.
myCallbackErrorNoInitCheck(requestId, cleartexts, proof) ==
    LET ctx == decryptionContexts[requestId] IN
    IF ctx.processed THEN "ReplayAttempt"
    ELSE IF ctx.batchId >= Len(batches) THEN "Panic"
    ELSE IF currentStateHash(ctx) # ctx.stateHash THEN "StateMismatch"
    ELSE IF ~checkSignatures(requestId, cleartexts, proof) THEN "InvalidProof"
    ELSE "ok"

\* myCallback refusing a request whose batch another request has completed.
myCallbackErrorOncePerBatch(requestId, cleartexts, proof) ==
    LET ctx == decryptionContexts[requestId] IN
    IF ctx.processed THEN "ReplayAttempt"
    ELSE IF \E r \in RequestIds : /\ decryptionContexts[r].processed
                                  /\ decryptionContexts[r].batchId = ctx.batchId
         THEN "ReplayAttempt"
    ELSE IF ctx.batchId >= Len(batches) THEN "Panic"
    ELSE IF _initIfNeeded(batchTotalEncryptedAmount[ctx.batchId]) # "ok"
         THEN "NotInitialized"
    ELSE IF currentStateHash(ctx) # ctx.stateHash THEN "StateMismatch"
    ELSE IF ~checkSignatures(requestId, cleartexts, proof) THEN "InvalidProof"
    ELSE "ok"

myCallbackError(requestId, cleartexts, proof) ==
    LET ctx == decryptionContexts[requestId] IN
    IF ctx.processed THEN "ReplayAttempt"
    ELSE IF ctx.batchId >= Len(batches) THEN "Panic"
    ELSE IF _initIfNeeded(batchTotalEncryptedAmount[ctx.batchId]) # "ok"
         THEN "NotInitialized"
    ELSE IF currentStateHash(ctx) # ctx.stateHash THEN "StateMismatch"
    ELSE IF ~checkSignatures(requestId, cleartexts, proof) THEN "InvalidProof"
    ELSE "ok"

myCallback(requestId, cleartexts, proof) ==
    LET err == myCallbackError(requestId, cleartexts, proof)
        ctx == decryptionContexts[requestId]
        totalAmount == AbiDecode32(cleartexts)
    IN  IF err # "ok" THEN Revert(err)
        ELSE /\ decryptionContexts' =
                    [decryptionContexts EXCEPT ![requestId].processed = TRUE]
             /\ completions' =
                    [completions EXCEPT
                        ![requestId] = Append(@, <<"DecryptionCompleted", requestId,
                                                   ctx.batchId, totalAmount>>)]
             /\ UNCHANGED <<access, timers, ledger, batches, counterRequest,
                            oracleRequests, adminLog, batchLog, tipLog, requestLog,
                            blockTimestamp>>

\* ------------------------------------------------------------------- time
\* Seconds the timestamp advances by at a time: the default cooldown, so a
\* call one step later is made exactly when the default window ends.
TickSeconds == DefaultCooldown
Tick ==
    /\ blockTimestamp < DeployTime + MaxTicks * TickSeconds
    /\ blockTimestamp' = blockTimestamp + TickSeconds
    /\ UNCHANGED <<storage, logs>>

\* ------------------------------------------------------------ transitions
Next ==
    \/ \E s \in Address, a \in Address : transferOwnership(s, a)
    \/ \E s \in Address, a \in Address : addProvider(s, a)
    \/ \E s \in Address, a \in Address : removeProvider(s, a)
    \/ \E s \in Address : pause(s)
    \/ \E s \in Address : unpause(s)
    \/ \E s \in Address, c \in CooldownInputs : setCooldownSeconds(s, c)
    \/ \E s \in Address : openBatch(s)
    \/ \E s \in Address : closeBatch(s)
    \/ \E s \in Address, a \in AmountHandles, m1 \in MessageHandles,
          m2 \in MessageHandles : submitTip(s, a, m1, m2)
    \/ \E s \in Address, b \in 0..(MaxBatches + 1) : requestBatchTotalDecryption(s, b)
    \/ \E r \in RequestIds, c \in CleartextInputs, p \in ProofInputs : myCallback(r, c, p)
    \/ Tick

Spec == Init /\ [][Next]_vars

\* ================================================================ claims

\* ---- C1 ----------------------------------------------------------------
\* C1: in every reachable state at most one batch has isOpen = TRUE, and an
\* open batch is the last element of the batch registry.
C1_SingleOpenBatch ==
    /\ Cardinality({i \in 1..Len(batches) : batches[i].isOpen}) <= 1
    /\ \A i \in 1..Len(batches) : batches[i].isOpen => i = Len(batches)
\* A second batch is open after the first was closed.
C1_Witness ==
    /\ Len(batches) = 3
    /\ ~BatchAt(1).isOpen
    /\ BatchAt(2).isOpen

\* ---- C2 ----------------------------------------------------------------
\* The amount handles of the tips whose TipSubmitted event names batch b, in
\* ledger order.
RECURSIVE C2_BatchHandles(_, _)
C2_BatchHandles(b, n) ==
    IF n = 0 THEN << >>
    ELSE IF tipLog[n][3] = b
         THEN Append(C2_BatchHandles(b, n - 1), tips[n].encryptedAmount)
         ELSE C2_BatchHandles(b, n - 1)
\* The exact sum of the plaintexts of a sequence of handles, <<carry, hi, lo>>.
RECURSIVE C2_ExactSum(_)
C2_ExactSum(hs) ==
    IF hs = << >> THEN <<0, 0, 0>>
    ELSE LET r == C2_ExactSum(SubSeq(hs, 1, Len(hs) - 1))
             x == Decrypt(hs[Len(hs)])
             lo == r[3] + x[2]
             hi == r[2] + x[1] + (lo \div Limb)
         IN  <<r[1] + (hi \div Limb), hi % Limb, lo % Limb>>
\* The running total submitTip builds from a sequence of amount handles.
RECURSIVE C2_RunningTotal(_)
C2_RunningTotal(hs) ==
    IF hs = << >> THEN ZeroHandle
    ELSE NewBatchTotal(C2_RunningTotal(SubSeq(hs, 1, Len(hs) - 1)), hs[Len(hs)])
C2_Permutations(n) ==
    {f \in [1..n -> 1..n] : \A i, j \in 1..n : f[i] = f[j] => i = j}
C2_ClosedWithTips ==
    {b \in 1..(Len(batches) - 1) : ~BatchAt(b).isOpen /\ batchTipCount[b] >= 1}

\* C2: for every closed batch with contributions a1..an, the plaintext of its
\* running total is exactly a1 + ... + an, and every order of submitting the
\* same contributions gives a running total with that plaintext.
C2_ExactSumAnyOrder ==
    \A b \in C2_ClosedWithTips :
        LET hs == C2_BatchHandles(b, Len(tips))
            total == Decrypt(batchTotalEncryptedAmount[b])
        IN  /\ C2_ExactSum(hs) = <<0, total[1], total[2]>>
            /\ \A f \in C2_Permutations(Len(hs)) :
                   Decrypt(C2_RunningTotal([i \in 1..Len(hs) |-> hs[f[i]]])) = total
\* What the code does keep: the plaintext is the sum modulo 2^32, in any order.
C2_SumModulo32AnyOrder ==
    \A b \in C2_ClosedWithTips :
        LET hs == C2_BatchHandles(b, Len(tips))
            total == Decrypt(batchTotalEncryptedAmount[b])
            sum == C2_ExactSum(hs)
        IN  /\ Len(hs) = batchTipCount[b]
            /\ <<sum[2], sum[3]>> = total
            /\ \A f \in C2_Permutations(Len(hs)) :
                   Decrypt(C2_RunningTotal([i \in 1..Len(hs) |-> hs[f[i]]])) = total

\* ---- C3 ----------------------------------------------------------------
\* C3: a requestId has at most one DecryptionCompleted event, it has one
\* exactly when its context is marked processed, and once it is processed
\* every callback for it, whatever the cleartexts and the proof, reverts with
\* ReplayAttempt (a revert changes nothing and logs nothing).
C3_ExactlyOnce ==
    \A r \in RequestIds :
        /\ Len(completions[r]) <= 1
        /\ decryptionContexts[r].processed <=> Len(completions[r]) = 1
        /\ decryptionContexts[r].processed =>
               \A c \in CleartextInputs, p \in ProofInputs :
                   myCallbackError(r, c, p) = "ReplayAttempt"
\* A callback has succeeded, so that replays of it are refused.
C3_Witness ==
    \E r \in RequestIds :
        /\ decryptionContexts[r].processed
        /\ Len(completions[r]) = 1
        /\ myCallbackError(r, OracleCleartexts(r), KmsProof(r, OracleCleartexts(r)))
               = "ReplayAttempt"

\* ---- C4 ----------------------------------------------------------------
\* myCallback as a function of the storage it finds.  No entry point changes
\* the total of a batch after its decryption was requested (C8), so the
\* fingerprint comparison is exercised on storage in which the total of the
\* context's batch is any initialized handle: the one fingerprinted, or
\* another one.  Request 0 was made for closed batch 1, whose total was then
\* fp; the total is now cur.
CallbackHandles(n) ==
    UNION {[1..k -> AmountInputs] : k \in 1..n}
InitCallback ==
    \E fp \in CallbackHandles(2), cur \in CallbackHandles(3), done \in BOOLEAN :
        /\ owner = Deployer
        /\ isProvider = [a \in Address |-> a = Deployer]
        /\ paused \in BOOLEAN
        /\ cooldownSeconds = DefaultCooldown
        /\ lastSubmissionTime = [a \in Address |-> 0]
        /\ lastDecryptionRequestTime = [a \in Address |-> IF a = Deployer THEN DeployTime ELSE 0]
        /\ tips = << >>
        /\ batches = <<[id |-> 0, isOpen |-> FALSE, startTime |-> 0, closeTime |-> 0],
                       [id |-> 1, isOpen |-> FALSE, startTime |-> DeployTime,
                        closeTime |-> DeployTime]>>
        /\ batchTipCount = [b \in BatchIds |-> 0]
        /\ batchTotalEncryptedAmount =
               [b \in BatchIds |-> IF b = 1 THEN cur ELSE ZeroHandle]
        /\ decryptionContexts =
               [r \in RequestIds |->
                   IF r = 0 THEN [batchId |-> 1, stateHash |-> _hashCiphertexts(<<fp>>),
                                  processed |-> done]
                   ELSE EmptyContext]
        /\ counterRequest = 1
        /\ oracleRequests = [r \in RequestIds |-> IF r = 0 THEN <<fp>> ELSE << >>]
        /\ adminLog = << >>
        /\ batchLog = <<<<"BatchOpened", 1, DeployTime>>, <<"BatchClosed", 1, DeployTime, 0>>>>
        /\ tipLog = << >>
        /\ requestLog = <<<<"DecryptionRequested", 0, 1, _hashCiphertexts(<<fp>>)>>>>
        /\ completions =
               [r \in RequestIds |->
                   IF r = 0 /\ done
                   THEN <<<<"DecryptionCompleted", 0, 1, Decrypt(fp)>>>>
                   ELSE << >>]
        /\ blockTimestamp = DeployTime
NextCallback ==
    \E r \in RequestIds, c \in CleartextInputs, p \in ProofInputs : myCallback(r, c, p)
SpecCallback == InitCallback /\ [][NextCallback]_vars

\* C4: a callback marks a pending context processed only if the fingerprint
\* rebuilt from the current total of the context's batch equals the stored
\* one; when the current handle is not the handle that was fingerprinted, the
\* callback reverts with StateMismatch, also for the cleartexts and proof that
\* checkSignatures accepts, and the context stays unprocessed.
C4_Pending == {r \in Requested : ~decryptionContexts[r].processed}
C4_Accepted(r) == ~decryptionContexts[r].processed /\ decryptionContexts'[r].processed
C5_AlwaysBatchNotOpen ==
    \A s \in Address, a \in AmountHandles, m1 \in MessageHandles, m2 \in MessageHandles :
        ~currentBatch.isOpen => submitTipError(s, a, m1, m2) = "BatchNotOpen"
\* C5 amended: whenever the latest batch is closed (or is the sentinel),
\* submitTip reverts for every caller and every argument: with PausedState
\* when the contract is paused, else with the error of the caller's cooldown
\* check when that fails, else with BatchNotOpen; and no step from such a
\* state appends a tip or changes a count, a running total or a submission
\* timer.
C5_ClosedBatchRejects ==
    /\ [](\A s \in Address, a \in AmountHandles, m1 \in MessageHandles,
             m2 \in MessageHandles :
            ~currentBatch.isOpen =>
                submitTipError(s, a, m1, m2) =
                    IF paused THEN "PausedState"
                    ELSE IF checkSubmissionCooldown(s) # "ok"
                         THEN checkSubmissionCooldown(s)
                    ELSE "BatchNotOpen")
    /\ [][~currentBatch.isOpen =>
            UNCHANGED <<tips, batchTipCount, batchTotalEncryptedAmount,
                        lastSubmissionTime, tipLog>>]_vars
\* A batch that took a tip is closed: one caller is refused with BatchNotOpen,
\* the tipper, still in its cooldown, with CooldownActive.
C5_Witness ==
    /\ ~currentBatch.isOpen
    /\ Len(tips) >= 1
    /\ \E s \in Address : submitTipError(s, <<"c1">>, <<"m">>, <<"m">>) = "BatchNotOpen"
    /\ \E s \in Address : submitTipError(s, <<"c1">>, <<"m">>, <<"m">>) = "CooldownActive"

\* ---- C6 ----------------------------------------------------------------
\* C6: while the latest batch is open, openBatch reverts for every caller,
\* with BatchOpen when the caller passes the provider and pause modifiers,
\* and no step creates a batch; while the latest batch is closed (also when
\* it is the sentinel), closeBatch reverts for every caller, with
\* BatchNotOpen when the caller passes the modifiers, and no step changes an
\* existing batch.
C6_WrongStateRejected ==
    /\ [](\A s \in Address :
            /\ currentBatch.isOpen =>
                   /\ openBatchError(s) # "ok"
                   /\ (isProvider[s] /\ ~paused) => openBatchError(s) = "BatchOpen"
            /\ ~currentBatch.isOpen =>
                   /\ closeBatchError(s) # "ok"
                   /\ (isProvider[s] /\ ~paused) => closeBatchError(s) = "BatchNotOpen")
    /\ [][/\ currentBatch.isOpen =>
                 /\ Len(batches') = Len(batches)
                 /\ \A i \in 1..Len(batchLog') :
                        i > Len(batchLog) => batchLog'[i][1] # "BatchOpened"
          /\ ~currentBatch.isOpen =>
                 /\ \A i \in 1..Len(batches) : batches'[i] = batches[i]
                 /\ \A i \in 1..Len(batchLog') :
                        i > Len(batchLog) => batchLog'[i][1] # "BatchClosed"]_vars
\* The second batch is open and a provider's openBatch is refused with
\* BatchOpen, after the first batch was closed.
C6_Witness ==
    /\ Len(batches) = 3
    /\ currentBatch.isOpen
    /\ \E s \in Address : openBatchError(s) = "BatchOpen"
    /\ batchLog[2][1] = "BatchClosed"

\* ---- C7 ----------------------------------------------------------------
\* C7: requestBatchTotalDecryption(batchId) succeeds only for 1 <= batchId <
\* batches.length with that batch closed; for a caller that passes the
\* provider, pause and cooldown modifiers, batchId 0 or batchId >=
\* batches.length reverts with InvalidBatch and an open batch with BatchOpen;
\* a context is stored, a request sent to the oracle or a decryption timer
\* set only by a step from a state in which the batch was closed; so every
\* stored context names an existing batch >= 1 that is closed.
C7_Gates(s) ==
    onlyProvider(s) = "ok" /\ whenNotPaused = "ok" /\ checkDecryptionCooldown(s) = "ok"
C7_ValidClosed(b) == b >= 1 /\ b < Len(batches) /\ ~BatchAt(b).isOpen
C7_RequestOnlyClosed ==
    /\ [](\A s \in Address, b \in 0..(MaxBatches + 1) :
            LET e == requestBatchTotalDecryptionError(s, b) IN
            /\ e = "ok" => C7_ValidClosed(b)
            /\ C7_Gates(s) =>
                   /\ (b = 0 \/ b >= Len(batches)) => e = "InvalidBatch"
                   /\ (b >= 1 /\ b < Len(batches) /\ BatchAt(b).isOpen) => e = "BatchOpen")
    /\ [](\A r \in Requested : C7_ValidClosed(decryptionContexts[r].batchId))
    /\ [][\A r \in RequestIds :
            (\/ oracleRequests'[r] # oracleRequests[r]
             \/ decryptionContexts'[r].batchId # decryptionContexts[r].batchId
             \/ decryptionContexts'[r].stateHash # decryptionContexts[r].stateHash)
            => /\ C7_ValidClosed(decryptionContexts'[r].batchId)
               /\ counterRequest' = counterRequest + 1]_vars
    /\ [][lastDecryptionRequestTime' # lastDecryptionRequestTime
            => \E b \in 1..(Len(batches) - 1) :
                  /\ ~BatchAt(b).isOpen
                  /\ decryptionContexts'[counterRequest].batchId = b]_vars
\* A context is stored for closed batch 1; the provider, past its cooldown,
\* is refused with BatchOpen for open batch 2 and with InvalidBatch for
\* batch 0 and for batch 3, which does not exist.
C7_Witness ==
    \E s \in Address :
        /\ C7_Gates(s)
        /\ Len(batches) = 3
        /\ \E r \in Requested : decryptionContexts[r].batchId = 1
        /\ requestBatchTotalDecryptionError(s, 2) = "BatchOpen"
        /\ requestBatchTotalDecryptionError(s, 0) = "InvalidBatch"
        /\ requestBatchTotalDecryptionError(s, 3) = "InvalidBatch"

\* ---- C8 ----------------------------------------------------------------
\* C8: once a decryption was requested for batch b, no step changes the
\* running total or the tip count of b, and no callback for a stored context
\* reverts with StateMismatch.
C8_RequestedBatchFrozen ==
    /\ [][\A r \in Requested :
            LET b == decryptionContexts[r].batchId IN
            /\ batchTotalEncryptedAmount'[b] = batchTotalEncryptedAmount[b]
            /\ batchTipCount'[b] = batchTipCount[b]]_vars
    /\ [](\A r \in Requested, c \in CleartextInputs, p \in ProofInputs :
            myCallbackError(r, c, p) # "StateMismatch")
\* Batch 1 has a stored context and a tip went into batch 2, opened later.
C8_Witness ==
    /\ \E r \in Requested : decryptionContexts[r].batchId = 1
    /\ Len(batches) = 3
    /\ batchTipCount[2] >= 1
    /\ batchTipCount[1] >= 1

\* ---- C9 ----------------------------------------------------------------
\* C9: in every reachable state, whatever was called since the request, a
\* callback for a pending context whose cleartexts and proof checkSignatures
\* accepts succeeds, and each DecryptionCompleted event names the requestId
\* and the batch of its DecryptionRequested event.
C9_PendingStaysAccepted ==
    /\ \A r \in C4_Pending :
           /\ checkSignatures(r, OracleCleartexts(r), KmsProof(r, OracleCleartexts(r)))
           /\ \A c \in CleartextInputs, p \in ProofInputs :
                  checkSignatures(r, c, p) => myCallbackError(r, c, p) = "ok"
    /\ \A r \in RequestIds : \A i \in 1..Len(completions[r]) :
           /\ completions[r][i][2] = r
           /\ completions[r][i][3] = requestLog[r + 1][3]
           /\ requestLog[r + 1][2] = r
\* The context of request 0, made for batch 1 at deployment time, is still
\* pending and accepted after a second batch was opened one step later, took
\* a tip, was closed and had its own decryption requested.
C9_Witness ==
    /\ 0 \in C4_Pending
    /\ decryptionContexts[0].batchId = 1
    /\ Len(batches) = 3
    /\ BatchAt(1).closeTime = DeployTime
    /\ BatchAt(2).startTime > DeployTime
    /\ batchTipCount[2] >= 1
    /\ 1 \in Requested
    /\ decryptionContexts[1].batchId = 2
    /\ myCallbackError(0, OracleCleartexts(0), KmsProof(0, OracleCleartexts(0))) = "ok"

\* ---- C10 ---------------------------------------------------------------
\* C10: an actor that has submitted a tip calls submitTip again with
\* initialized handles, into an open batch, unpaused: the call reverts with
\* CooldownActive when block.timestamp < lastSubmissionTime + cooldownSeconds
\* and succeeds otherwise.
C10_WithinWindow(s) ==
    \/ AddOverflows(lastSubmissionTime[s], cooldownSeconds)
    \/ Lt256(blockTimestamp, lastSubmissionTime[s] + cooldownSeconds)
C10_SecondSubmission ==
    \A s \in Address :
        (lastSubmissionTime[s] # 0 /\ ~paused /\ currentBatch.isOpen) =>
            LET e == submitTipError(s, <<"c1">>, <<"m">>, <<"m">>) IN
            /\ C10_WithinWindow(s) => e = "CooldownActive"
            /\ ~C10_WithinWindow(s) => e = "ok"
\* What the code keeps: the same, when lastSubmissionTime + cooldownSeconds
\* does not exceed the uint256 range.
C10_SecondSubmissionNoOverflow ==
    \A s \in Address :
        (lastSubmissionTime[s] # 0 /\ ~paused /\ currentBatch.isOpen
         /\ ~AddOverflows(lastSubmissionTime[s], cooldownSeconds)) =>
            LET e == submitTipError(s, <<"c1">>, <<"m">>, <<"m">>) IN
            /\ C10_WithinWindow(s) => e = "CooldownActive"
            /\ ~C10_WithinWindow(s) => e = "ok"

\* ---- C11 ---------------------------------------------------------------
\* C11: a submitTip with an uninitialized handle among its three reverts for
\* every caller, with NotInitialized when the contract is unpaused, the
\* caller's cooldown check passes and the latest batch is open.  A step
\* changes the ledger, a tip count, a running total, a submission timer or
\* the TipSubmitted log only all together, as one tip with three initialized
\* handles: one record appended, one count raised by one, that batch's total
\* replaced, the tipper's timer set to the block time, one event.  A step
\* that changes batches, contexts or the access settings logs its event.
C11_NewTipComplete ==
    LET n == Len(tips')
        tip == tips'[n]
        b == currentBatch.id
    IN  /\ n = Len(tips) + 1
        /\ SubSeq(tips', 1, Len(tips)) = tips
        /\ isInitialized(tip.encryptedAmount)
        /\ isInitialized(tip.encryptedMessagePart1)
        /\ isInitialized(tip.encryptedMessagePart2)
        /\ batchTipCount' = [batchTipCount EXCEPT ![b] = @ + 1]
        /\ batchTotalEncryptedAmount' =
               [batchTotalEncryptedAmount EXCEPT
                   ![b] = NewBatchTotal(@, tip.encryptedAmount)]
        /\ lastSubmissionTime' =
               [lastSubmissionTime EXCEPT ![tip.tipper] = blockTimestamp]
        /\ tipLog' = Append(tipLog, <<"TipSubmitted", tip.tipper, b, n - 1>>)
C11_AllOrNothing ==
    /\ [](\A s \in Address, a \in AmountHandles, m1 \in MessageHandles,
             m2 \in MessageHandles :
            (~isInitialized(a) \/ ~isInitialized(m1) \/ ~isInitialized(m2)) =>
                /\ submitTipError(s, a, m1, m2) # "ok"
                /\ (~paused /\ checkSubmissionCooldown(s) = "ok" /\ currentBatch.isOpen)
                       => submitTipError(s, a, m1, m2) = "NotInitialized")
    /\ [][(\/ tips' # tips
           \/ batchTipCount' # batchTipCount
           \/ batchTotalEncryptedAmount' # batchTotalEncryptedAmount
           \/ lastSubmissionTime' # lastSubmissionTime
           \/ tipLog' # tipLog) => C11_NewTipComplete]_vars
    /\ [][/\ batches' # batches => Len(batchLog') = Len(batchLog) + 1
          /\ access' # access => Len(adminLog') = Len(adminLog) + 1
          /\ oracle' # oracle =>
                 \/ Len(requestLog') = Len(requestLog) + 1
                 \/ \E r \in RequestIds : Len(completions'[r]) = Len(completions[r]) + 1]_vars
\* A tip is in the ledger, the batch is still open, and a caller that passes
\* the pause and cooldown modifiers is refused with NotInitialized for an
\* uninitialized amount, first or second message part.
C11_Witness ==
    /\ Len(tips) = 1
    /\ currentBatch.isOpen
    /\ \E s \in Address :
           /\ submitTipError(s, ZeroHandle, <<"m">>, <<"m">>) = "NotInitialized"
           /\ submitTipError(s, <<"c1">>, ZeroHandle, <<"m">>) = "NotInitialized"
           /\ submitTipError(s, <<"c1">>, <<"m">>, ZeroHandle) = "NotInitialized"
           /\ submitTipError(s, <<"c1">>, <<"m">>, <<"m">>) = "ok"

\* ---- C12 ---------------------------------------------------------------
\* C12: every stored context is for a closed batch that took at least one
\* tip.  While it is pending, a callback with cleartexts and a proof that
\* checkSignatures accepts succeeds; the step that marks it processed logs
\* exactly one DecryptionCompleted with its requestId, its batch and the
\* total decoded from the cleartexts, which is the plaintext of the batch's
\* running total; once processed, every callback for it reverts with
\* ReplayAttempt.
C12_Completed(r) ==
    <<"DecryptionCompleted", r, decryptionContexts[r].batchId,
      Decrypt(batchTotalEncryptedAmount[decryptionContexts[r].batchId])>>
C12_EndToEnd ==
    /\ [](\A r \in Requested :
            LET ctx == decryptionContexts[r] IN
            /\ ctx.batchId \in 1..(Len(batches) - 1)
            /\ ~BatchAt(ctx.batchId).isOpen
            /\ batchTipCount[ctx.batchId] >= 1
            /\ ~ctx.processed =>
                   /\ completions[r] = << >>
                   /\ myCallbackError(r, OracleCleartexts(r),
                                      KmsProof(r, OracleCleartexts(r))) = "ok"
            /\ ctx.processed =>
                   /\ completions[r] = <<C12_Completed(r)>>
                   /\ \A c \in CleartextInputs, p \in ProofInputs :
                          myCallbackError(r, c, p) = "ReplayAttempt")
    /\ [][\A r \in RequestIds :
            C4_Accepted(r) =>
                /\ completions'[r] = <<C12_Completed(r)>>
                /\ \A q \in RequestIds \ {r} : completions'[q] = completions[q]
                /\ \E c \in CleartextInputs, p \in ProofInputs :
                      /\ checkSignatures(r, c, p)
                      /\ AbiDecode32(c) = C12_Completed(r)[4]]_vars
\* Two tips of 2^32 - 2 and 1 went into batch 1; its decryption completed
\* with total 2^32 - 1 and a repeat of the callback is refused.
C12_Witness ==
    /\ 0 \in Requested
    /\ decryptionContexts[0].batchId = 1
    /\ batchTipCount[1] = 2
    /\ decryptionContexts[0].processed
    /\ completions[0] = <<<<"DecryptionCompleted", 0, 1, <<Limb - 1, Limb - 1>>>>>>
    /\ myCallbackError(0, OracleCleartexts(0), KmsProof(0, OracleCleartexts(0)))
           = "ReplayAttempt"

\* ---- C13 ---------------------------------------------------------------
\* C13: a closed batch that took no tip has an uninitialized running total;
\* requestBatchTotalDecryption for it reverts for every caller, with
\* NotInitialized for a caller that passes the provider, pause and cooldown
\* modifiers; no step stores a context or sends an oracle request for such a
\* batch, and a decryption timer is only set together with a request for a
\* batch that took a tip.
C13_ClosedEmpty ==
    {b \in 1..(Len(batches) - 1) : ~BatchAt(b).isOpen /\ batchTipCount[b] = 0}
C13_EmptyBatchRejected ==
    /\ [](\A b \in C13_ClosedEmpty :
            /\ ~isInitialized(batchTotalEncryptedAmount[b])
            /\ \A r \in Requested : decryptionContexts[r].batchId # b
            /\ \A s \in Address :
                   /\ requestBatchTotalDecryptionError(s, b) # "ok"
                   /\ C7_Gates(s) =>
                          requestBatchTotalDecryptionError(s, b) = "NotInitialized")
    /\ [][(\/ oracleRequests' # oracleRequests
           \/ counterRequest' # counterRequest
           \/ lastDecryptionRequestTime' # lastDecryptionRequestTime
           \/ requestLog' # requestLog
           \/ \E r \in RequestIds :
                 decryptionContexts'[r].batchId # decryptionContexts[r].batchId)
          => /\ Len(requestLog') = Len(requestLog) + 1
             /\ requestLog'[Len(requestLog')][3] \notin C13_ClosedEmpty
             /\ batchTipCount[requestLog'[Len(requestLog')][3]] >= 1]_vars
\* Batch 1 was closed without a tip and a provider that passes the modifiers
\* is refused with NotInitialized; batch 2 took a tip, was closed and has a
\* context.
C13_Witness ==
    /\ Len(batches) = 3
    /\ 1 \in C13_ClosedEmpty
    /\ \E s \in Address :
           C7_Gates(s) /\ requestBatchTotalDecryptionError(s, 1) = "NotInitialized"
    /\ \E r \in Requested : decryptionContexts[r].batchId = 2

\* ---- C14 ---------------------------------------------------------------
\* C14: once a callback for a requestId has failed, no later callback for
\* that requestId succeeds.  A failed callback reverts and leaves the state
\* as it was, so the claim is: from a state in which some callback for r
\* fails, no step marks r processed.
C14_SomeCallbackFails(r) ==
    \E c \in CleartextInputs, p \in ProofInputs : myCallbackError(r, c, p) # "ok"
C14_FailurePermanent ==
    [][\A r \in RequestIds : C14_SomeCallbackFails(r) => ~C4_Accepted(r)]_vars
\* What the code keeps: a requestId whose callback fails with ReplayAttempt
\* or StateMismatch is not marked processed by any step, and no callback for
\* it succeeds in the next state.
C14_ReplayOrMismatchPermanent ==
    [][\A r \in RequestIds :
        (\E c \in CleartextInputs, p \in ProofInputs :
            myCallbackError(r, c, p) \in {"ReplayAttempt", "StateMismatch"})
        => /\ ~C4_Accepted(r)
           /\ \A c \in CleartextInputs', p \in ProofInputs' :
                  myCallbackError(r, c, p)' # "ok"]_vars

\* ---- C15 ---------------------------------------------------------------
\* The contract with an oracle that may return any requestId to
\* requestBatchTotalDecryption: line 198 takes whatever FHE.requestDecryption
\* returns, and line 200 stores the context under it.
requestBatchTotalDecryptionAnyId(sender, batchId) ==
    \E requestId \in RequestIds : requestBatchTotalDecryptionAs(sender, batchId, requestId)
\* The administration functions write no context; the calls followed here are
\* those of the batch, tip and decryption flow, so every behaviour of this
\* specification is a behaviour of the contract under such an oracle.
NextAnyRequestId ==
    \/ \E s \in Address : openBatch(s)
    \/ \E s \in Address : closeBatch(s)
    \/ \E s \in Address, a \in AmountHandles, m1 \in MessageHandles,
          m2 \in MessageHandles : submitTip(s, a, m1, m2)
    \/ \E s \in Address, b \in 0..(MaxBatches + 1) : requestBatchTotalDecryptionAnyId(s, b)
    \/ \E r \in RequestIds, c \in CleartextInputs, p \in ProofInputs : myCallback(r, c, p)
    \/ Tick
SpecAnyRequestId == Init /\ [][NextAnyRequestId]_vars

\* C15: a context that is processed stays processed in every later state,
\* whatever requestIds the oracle returns to later requests, and the batchId
\* and stateHash of a stored context are never overwritten.
C15_ContextNeverReset ==
    [][\A r \in Requested :
        /\ decryptionContexts[r].processed => decryptionContexts'[r].processed
        /\ decryptionContexts'[r].batchId = decryptionContexts[r].batchId
        /\ decryptionContexts'[r].stateHash = decryptionContexts[r].stateHash]_vars

\* ---- C16 ---------------------------------------------------------------
\* C16 as stated: while paused, every call of openBatch, closeBatch,
\* submitTip and requestBatchTotalDecryption reverts with PausedState.
C16_AlwaysPausedState ==
    paused =>
        /\ \A s \in Address :
               /\ openBatchError(s) = "PausedState"
               /\ closeBatchError(s) = "PausedState"
        /\ \A s \in Address, b \in 0..(MaxBatches + 1) :
               requestBatchTotalDecryptionError(s, b) = "PausedState"
        /\ \A s \in Address, a \in AmountHandles, m1 \in MessageHandles,
              m2 \in MessageHandles : submitTipError(s, a, m1, m2) = "PausedState"
\* C16 amended: while paused, every call of openBatch, closeBatch, submitTip
\* and requestBatchTotalDecryption reverts: submitTip with PausedState;
\* openBatch, closeBatch and requestBatchTotalDecryption with PausedState
\* when the caller is a provider and with NotProvider when it is not.  No
\* step from a paused state changes the batches, the ledger, the counts, the
\* totals, the timers, the requests sent to the oracle or the batchId and
\* stateHash of a context, or logs a batch, tip or request event.
C16_PausedError(s) == IF isProvider[s] THEN "PausedState" ELSE "NotProvider"
C16_PausedFreezes ==
    /\ [](paused =>
            /\ \A s \in Address :
                   /\ openBatchError(s) = C16_PausedError(s)
                   /\ closeBatchError(s) = C16_PausedError(s)
            /\ \A s \in Address, b \in 0..(MaxBatches + 1) :
                   requestBatchTotalDecryptionError(s, b) = C16_PausedError(s)
            /\ \A s \in Address, a \in AmountHandles, m1 \in MessageHandles,
                  m2 \in MessageHandles : submitTipError(s, a, m1, m2) = "PausedState")
    /\ [][paused =>
            /\ UNCHANGED <<batches, ledger, timers, counterRequest, oracleRequests,
                           batchLog, tipLog, requestLog>>
            /\ \A r \in RequestIds :
                   /\ decryptionContexts'[r].batchId = decryptionContexts[r].batchId
                   /\ decryptionContexts'[r].stateHash = decryptionContexts[r].stateHash]_vars
\* The contract was paused while batch 1 was open with a tip in it; a
\* provider and a non-provider are both refused.
C16_Witness ==
    /\ paused
    /\ currentBatch.isOpen
    /\ Len(tips) >= 1
    /\ \E s \in Address : closeBatchError(s) = "PausedState"
    /\ \E s \in Address : closeBatchError(s) = "NotProvider"
    /\ \E s \in Address : submitTipError(s, <<"c1">>, <<"m">>, <<"m">>) = "PausedState"

\* ---- C17 ---------------------------------------------------------------
\* C17: a caller that is not a provider is refused by openBatch, closeBatch
\* and requestBatchTotalDecryption with NotProvider, a caller that is not the
\* owner by transferOwnership, addProvider, removeProvider, pause, unpause
\* and setCooldownSeconds with NotOwner (the call reverts).  A
\* step that changes the batches or sends a decryption request is taken
\* while some address is a provider, the decryption timer that a request
\* sets is a provider's, and the Paused, Unpaused and OwnershipTransferred
\* events name the owner of the state they were emitted from.
C17_NewAdminEvents == {adminLog'[i] : i \in (Len(adminLog) + 1)..Len(adminLog')}
C17_Authorization ==
    /\ [](\A s \in Address :
            /\ ~isProvider[s] =>
                   /\ openBatchError(s) = "NotProvider"
                   /\ closeBatchError(s) = "NotProvider"
                   /\ \A b \in 0..(MaxBatches + 1) :
                          requestBatchTotalDecryptionError(s, b) = "NotProvider"
            /\ s # owner => onlyOwner(s) = "NotOwner" /\ pauseError(s) = "NotOwner")
    /\ [][\A s \in Address :
            ~isProvider[s] =>
                lastDecryptionRequestTime'[s] = lastDecryptionRequestTime[s]]_vars
    /\ [][/\ (batches' # batches \/ oracleRequests' # oracleRequests
              \/ counterRequest' # counterRequest \/ requestLog' # requestLog)
             => \E s \in Address : isProvider[s]
          /\ access' # access => C17_NewAdminEvents # {}
          /\ \A e \in C17_NewAdminEvents :
                 e[1] \in {"Paused", "Unpaused", "OwnershipTransferred"} => e[2] = owner]_vars
\* The ownership went to an address that is no provider: the new owner is
\* refused by openBatch with NotProvider, the old one by pause with
\* NotOwner, and the provider has opened a batch and requested a decryption.
C17_Witness ==
    \E o \in Address, q \in Address :
        /\ o # q
        /\ owner = o /\ ~isProvider[o] /\ isProvider[q]
        /\ openBatchError(o) = "NotProvider"
        /\ pauseError(q) = "NotOwner"
        /\ lastDecryptionRequestTime[q] # 0
        /\ Len(batches) >= 2

\* ---- C18 ---------------------------------------------------------------
\* C18: the batch stored at index i has id i; no step removes a batch,
\* reopens a closed one or changes the id or start time of an existing one;
\* a step adds at most one batch, open, whose id is the number of batches
\* before the step, and BatchOpened reports that id.
C18_OneWayRegistry ==
    /\ [](\A i \in 0..(Len(batches) - 1) : BatchAt(i).id = i)
    /\ [][/\ Len(batches') >= Len(batches)
          /\ Len(batches') <= Len(batches) + 1
          /\ \A i \in 0..(Len(batches) - 1) :
                 /\ ~BatchAt(i).isOpen => ~batches'[i + 1].isOpen
                 /\ ~BatchAt(i).isOpen => batches'[i + 1] = BatchAt(i)
                 /\ batches'[i + 1].id = BatchAt(i).id
                 /\ batches'[i + 1].startTime = BatchAt(i).startTime
          /\ Len(batches') = Len(batches) + 1 =>
                 /\ batches'[Len(batches')].id = Len(batches)
                 /\ batches'[Len(batches')].isOpen
                 /\ batches'[Len(batches')].startTime = blockTimestamp
                 /\ batchLog' = Append(batchLog, <<"BatchOpened", Len(batches),
                                                   blockTimestamp>>)]_vars
\* Batches 1 and 2 were opened and closed in turn.
C18_Witness ==
    /\ Len(batches) = 3
    /\ ~BatchAt(1).isOpen
    /\ ~BatchAt(2).isOpen
    /\ BatchAt(2).id = 2
    /\ Len(batchLog) = 4

\* ---- C19 ---------------------------------------------------------------
\* C19: in every reachable state batch 0 is the closed sentinel the
\* constructor pushed, its tip count is 0 and its running total is
\* uninitialized, no TipSubmitted or DecryptionRequested event and no stored
\* context names batch 0, and requestBatchTotalDecryption(0) reverts for
\* every caller, with InvalidBatch when the modifiers pass.
C19_SentinelBatch ==
    /\ BatchAt(0) = [id |-> 0, isOpen |-> FALSE, startTime |-> 0, closeTime |-> 0]
    /\ batchTipCount[0] = 0
    /\ ~isInitialized(batchTotalEncryptedAmount[0])
    /\ \A i \in 1..Len(tipLog) : tipLog[i][3] # 0
    /\ \A i \in 1..Len(requestLog) : requestLog[i][3] # 0
    /\ \A r \in Requested : decryptionContexts[r].batchId # 0
    /\ \A s \in Address :
           /\ requestBatchTotalDecryptionError(s, 0) # "ok"
           /\ C7_Gates(s) => requestBatchTotalDecryptionError(s, 0) = "InvalidBatch"
\* Tips were submitted and a decryption was requested, and a provider that
\* passes the modifiers is refused for batch 0.
C19_Witness ==
    /\ Len(tips) = 2
    /\ Requested # {}
    /\ ~currentBatch.isOpen
    /\ \E s \in Address :
           C7_Gates(s) /\ requestBatchTotalDecryptionError(s, 0) = "InvalidBatch"

\* ---- C20 ---------------------------------------------------------------
\* C20: for the owner, addProvider(a) with a already a provider and
\* removeProvider(a) with a not a provider change nothing and log nothing.
\* A step changes the provider set only in one address and together with
\* one event: ProviderAdded(a) for a that was no provider and now is,
\* ProviderRemoved(a) for a that was a provider and now is not; so a repeat
\* of the same call finds the entry set and is the no-op.
C20_Idempotent ==
    /\ [][\A a \in Address :
            /\ isProvider[a] => (addProvider(owner, a) => UNCHANGED vars)
            /\ ~isProvider[a] => (removeProvider(owner, a) => UNCHANGED vars)]_vars
    /\ [][/\ isProvider' # isProvider => Len(adminLog') = Len(adminLog) + 1
          /\ \A e \in C17_NewAdminEvents :
                 /\ e[1] = "ProviderAdded" =>
                        /\ ~isProvider[e[2]]
                        /\ isProvider' = [isProvider EXCEPT ![e[2]] = TRUE]
                 /\ e[1] = "ProviderRemoved" =>
                        /\ isProvider[e[2]]
                        /\ isProvider' = [isProvider EXCEPT ![e[2]] = FALSE]
                 /\ e[1] \notin {"ProviderAdded", "ProviderRemoved"} =>
                        isProvider' = isProvider]_vars
\* A second provider was added with one ProviderAdded event; the deployer
\* was a provider from construction.
C20_Witness ==
    /\ adminLog = <<<<"ProviderAdded", "a2">>>>
    /\ isProvider["a2"]
    /\ isProvider[Deployer]
    /\ owner = Deployer

\* ---- C21 ---------------------------------------------------------------
\* C21: pause called by the owner reverts with PausedState when the contract
\* is paused and succeeds when it is not; no step from a paused state logs
\* Paused or clears the flag other than by an Unpaused event, and a step
\* that logs Paused starts unpaused, ends paused and changes nothing else in
\* the storage.
C21_PauseOnce ==
    /\ [](pauseError(owner) = IF paused THEN "PausedState" ELSE "ok")
    /\ [][/\ paused =>
                 /\ \A e \in C17_NewAdminEvents : e[1] # "Paused"
                 /\ ~paused' => \E e \in C17_NewAdminEvents : e[1] = "Unpaused"
          /\ \A e \in C17_NewAdminEvents :
                 e[1] = "Paused" =>
                     /\ ~paused /\ paused' /\ e[2] = owner
                     /\ UNCHANGED <<owner, isProvider, cooldownSeconds, timers,
                                    ledger, batches, oracle>>
          /\ (~paused /\ paused') =>
                 \E e \in C17_NewAdminEvents : e[1] = "Paused"]_vars
\* The owner has paused the contract, and a second pause is refused.
C21_Witness ==
    /\ paused
    /\ adminLog = <<<<"Paused", owner>>>>
    /\ pauseError(owner) = "PausedState"

\* ---- C22 ---------------------------------------------------------------
\* C22 as stated: the outcome of myCallback is ReplayAttempt when the context
\* is processed; otherwise StateMismatch when the fingerprint of the current
\* total of the context's batch differs from the stored one, whatever the
\* proof; otherwise InvalidProof when checkSignatures refuses; otherwise
\* success.
C22_ThreeChecks ==
    \A r \in RequestIds, c \in CleartextInputs, p \in ProofInputs :
        LET ctx == decryptionContexts[r] IN
        myCallbackError(r, c, p) =
            IF ctx.processed THEN "ReplayAttempt"
            ELSE IF currentStateHash(ctx) # ctx.stateHash THEN "StateMismatch"
            ELSE IF ~checkSignatures(r, c, p) THEN "InvalidProof"
            ELSE "ok"
\* C22 amended: the outcome is ReplayAttempt when the context is processed,
\* whatever the total, fingerprint and proof; otherwise NotInitialized when
\* the total of the context's batch is uninitialized (as for a requestId
\* without a stored context); otherwise StateMismatch when the recomputed
\* fingerprint differs from the stored one, whatever the proof; otherwise
\* InvalidProof when checkSignatures refuses; otherwise success.  A step
\* marks a context processed only from a state in which it was unprocessed,
\* its batch total was initialized, the fingerprints were equal and some
\* cleartexts and proof were accepted.
C22_CheckOrder ==
    /\ [](\A r \in RequestIds, c \in CleartextInputs, p \in ProofInputs :
            LET ctx == decryptionContexts[r] IN
            myCallbackError(r, c, p) =
                IF ctx.processed THEN "ReplayAttempt"
                ELSE IF ~isInitialized(batchTotalEncryptedAmount[ctx.batchId])
                     THEN "NotInitialized"
                ELSE IF <<"keccak256", <<batchTotalEncryptedAmount[ctx.batchId]>>,
                          ThisContract>> # ctx.stateHash
                     THEN "StateMismatch"
                ELSE IF ~checkSignatures(r, c, p) THEN "InvalidProof"
                ELSE "ok")
    /\ [][\A r \in RequestIds :
            C4_Accepted(r) =>
                LET ctx == decryptionContexts[r] IN
                /\ isInitialized(batchTotalEncryptedAmount[ctx.batchId])
                /\ <<"keccak256", <<batchTotalEncryptedAmount[ctx.batchId]>>,
                     ThisContract>> = ctx.stateHash
                /\ \E c \in CleartextInputs, p \in ProofInputs :
                       checkSignatures(r, c, p)]_vars
\* Request 0 is pending with a total that is no longer the fingerprinted
\* one: a forged proof and the oracle's proof both end in StateMismatch,
\* while request 1, which has no context, ends in NotInitialized.
C22_Witness ==
    /\ 0 \in C4_Pending
    /\ currentStateHash(decryptionContexts[0]) # decryptionContexts[0].stateHash
    /\ myCallbackError(0, AbiEncode32(<<0, 7>>), <<"forged">>) = "StateMismatch"
    /\ myCallbackError(0, OracleCleartexts(0), KmsProof(0, OracleCleartexts(0)))
           = "StateMismatch"
    /\ myCallbackError(1, AbiEncode32(<<0, 7>>), <<"forged">>) = "NotInitialized"

\* ---- C23 ---------------------------------------------------------------
\* C23: for every batch b, batchTipCount[b] is the number of TipSubmitted
\* events naming b, each logged by a step taken while b was the open latest
\* batch; the running total of b is initialized exactly when the count is at
\* least 1, and is then the first amount handle merged with the later ones;
\* the counts add up to the ledger length; a step that appends to the ledger
\* appends one record and raises one count, the open batch's, by one.
C23_TipsOf(b) == {i \in 1..Len(tipLog) : tipLog[i][3] = b}
RECURSIVE C23_SumCounts(_)
C23_SumCounts(n) == IF n < 0 THEN 0 ELSE batchTipCount[n] + C23_SumCounts(n - 1)
C23_Accounting ==
    /\ [](/\ Len(tipLog) = Len(tips)
          /\ \A b \in BatchIds :
                 /\ batchTipCount[b] = Cardinality(C23_TipsOf(b))
                 /\ isInitialized(batchTotalEncryptedAmount[b]) <=> batchTipCount[b] >= 1
                 /\ batchTotalEncryptedAmount[b] =
                        C2_RunningTotal(C2_BatchHandles(b, Len(tips)))
                 /\ b >= Len(batches) => batchTipCount[b] = 0
          /\ C23_SumCounts(MaxBatches) = Len(tips))
    /\ [][Len(tips') # Len(tips) =>
            /\ Len(tips') = Len(tips) + 1
            /\ currentBatch.isOpen
            /\ tipLog'[Len(tips')][3] = currentBatch.id
            /\ batchTipCount' =
                   [batchTipCount EXCEPT ![currentBatch.id] = @ + 1]]_vars
\* Batch 1 took one tip and batch 2 took one; both counts are 1, both totals
\* are initialized and the ledger holds two records.
C23_Witness ==
    /\ Len(batches) = 3
    /\ batchTipCount[1] = 1
    /\ batchTipCount[2] = 1
    /\ Len(tips) = 2
    /\ isInitialized(batchTotalEncryptedAmount[1])
    /\ isInitialized(batchTotalEncryptedAmount[2])

\* ---- C24 ---------------------------------------------------------------
\* C24: for every actor, the cooldown check of submitTip and the one of
\* requestBatchTotalDecryption give CooldownActive exactly when
\* block.timestamp < lastActionAt + cooldownSeconds, the sum taken in the
\* integers, and let the call proceed otherwise; they give no other error.
C24_Within(last) ==
    \/ AddOverflows(last, cooldownSeconds)
    \/ Lt256(blockTimestamp, last + cooldownSeconds)
C24_GateExact ==
    \A s \in Address :
        /\ checkSubmissionCooldown(s) =
               IF C24_Within(lastSubmissionTime[s]) THEN "CooldownActive" ELSE "ok"
        /\ checkDecryptionCooldown(s) =
               IF C24_Within(lastDecryptionRequestTime[s]) THEN "CooldownActive" ELSE "ok"
\* What the code keeps: the same whenever lastActionAt + cooldownSeconds
\* fits in a uint256.
C24_GateExactInRange ==
    \A s \in Address :
        /\ ~AddOverflows(lastSubmissionTime[s], cooldownSeconds) =>
               checkSubmissionCooldown(s) =
                   IF C24_Within(lastSubmissionTime[s]) THEN "CooldownActive" ELSE "ok"
        /\ ~AddOverflows(lastDecryptionRequestTime[s], cooldownSeconds) =>
               checkDecryptionCooldown(s) =
                   IF C24_Within(lastDecryptionRequestTime[s])
                   THEN "CooldownActive" ELSE "ok"

\* ---- C25 ---------------------------------------------------------------
\* C25: a step that appends a tip sets the submission timer of the tipper to
\* the block time and changes no other submission timer, no decryption
\* timer and not cooldownSeconds; a step that logs a decryption request sets
\* the decryption timer of one provider and changes no submission timer; a
\* timer changes in no other step; a step that changes cooldownSeconds
\* changes no timer.  With a window that does not overflow, an actor's
\* submission check depends on its submission timer only and its decryption
\* check on its decryption timer only, both with the one cooldownSeconds.
C25_Blocked(last) ==
    ~AddOverflows(last, cooldownSeconds) /\ Lt256(blockTimestamp, last + cooldownSeconds)
C25_IndependentTimers ==
    /\ [](\A s \in Address :
            /\ ~AddOverflows(lastSubmissionTime[s], cooldownSeconds) =>
                   (checkSubmissionCooldown(s) = "CooldownActive"
                        <=> C25_Blocked(lastSubmissionTime[s]))
            /\ ~AddOverflows(lastDecryptionRequestTime[s], cooldownSeconds) =>
                   (checkDecryptionCooldown(s) = "CooldownActive"
                        <=> C25_Blocked(lastDecryptionRequestTime[s])))
    /\ [][/\ Len(tips') # Len(tips) =>
                 /\ lastSubmissionTime' =
                        [lastSubmissionTime EXCEPT
                            ![tips'[Len(tips')].tipper] = blockTimestamp]
                 /\ UNCHANGED <<lastDecryptionRequestTime, cooldownSeconds>>
          /\ Len(requestLog') # Len(requestLog) =>
                 /\ \E s \in Address :
                        /\ isProvider[s]
                        /\ lastDecryptionRequestTime' =
                               [lastDecryptionRequestTime EXCEPT ![s] = blockTimestamp]
                 /\ UNCHANGED <<lastSubmissionTime, cooldownSeconds>>
          /\ lastSubmissionTime' # lastSubmissionTime => Len(tips') # Len(tips)
          /\ lastDecryptionRequestTime' # lastDecryptionRequestTime =>
                 Len(requestLog') # Len(requestLog)
          /\ cooldownSeconds' # cooldownSeconds =>
                 /\ UNCHANGED timers
                 /\ adminLog' = Append(adminLog, <<"CooldownSecondsSet", cooldownSeconds,
                                                   cooldownSeconds'>>)]_vars
\* One actor tipped at deployment time and requested a decryption a minute
\* later: its two timers differ, the other actor's are unset, and the actor
\* is now blocked from requesting but free to tip.
C25_Witness ==
    \E s \in Address, t \in Address :
        /\ s # t
        /\ lastSubmissionTime[s] = DeployTime
        /\ lastDecryptionRequestTime[s] = DeployTime + TickSeconds
        /\ lastSubmissionTime[t] = 0
        /\ lastDecryptionRequestTime[t] = 0
        /\ checkSubmissionCooldown(s) = "ok"
        /\ checkDecryptionCooldown(s) = "CooldownActive"

\* ---- C26 ---------------------------------------------------------------
\* C26: a step leaves a pending context as it is, or it is a successful
\* callback for its requestId: the context was accepted in the state before,
\* only its processed flag changes, to TRUE, and its DecryptionCompleted
\* event is logged.
C26_NoCancellation ==
    [][\A r \in C4_Pending :
        \/ decryptionContexts'[r] = decryptionContexts[r]
        \/ /\ decryptionContexts'[r] =
                  [decryptionContexts[r] EXCEPT !.processed = TRUE]
           /\ Len(completions'[r]) = Len(completions[r]) + 1
           /\ \E c \in CleartextInputs, p \in ProofInputs :
                  myCallbackError(r, c, p) = "ok"]_vars
\* The context of request 0 is still pending, unchanged, after a second
\* batch was opened, tipped, closed, requested and fulfilled and the
\* contract was paused.
C26_Witness ==
    /\ 0 \in C4_Pending
    /\ decryptionContexts[0] =
           [batchId |-> 1, stateHash |-> requestLog[1][4], processed |-> FALSE]
    /\ 1 \in Requested
    /\ decryptionContexts[1].batchId = 2
    /\ decryptionContexts[1].processed
    /\ paused

\* ---- C27 ---------------------------------------------------------------
\* C27: while the contract is paused, a step changes the state only through
\* owner-only administration: everything but the access settings and their
\* event log (and the block time) stays as it is, the processed flags of the
\* contexts and the DecryptionCompleted log included.
C27_PausedOnlyAdministration ==
    [][paused => UNCHANGED <<timers, ledger, batches, oracle, batchLog, tipLog,
                             requestLog, completions>>]_vars
\* What the code keeps while paused: everything but the processed flags and
\* the DecryptionCompleted log, which myCallback, a function without
\* modifiers, still writes.
C27_PausedAllButCallback ==
    [][paused =>
        /\ UNCHANGED <<timers, ledger, batches, counterRequest, oracleRequests,
                       batchLog, tipLog, requestLog>>
        /\ \A r \in RequestIds :
               decryptionContexts'[r] # decryptionContexts[r] =>
                   /\ C4_Accepted(r)
                   /\ Len(completions'[r]) = Len(completions[r]) + 1]_vars

\* ---- C28 ---------------------------------------------------------------
\* C28: the i-th TipSubmitted event names the tipper of the i-th record and
\* index i - 1, its position in the ledger counted from 0.  No step shortens
\* the ledger or changes a record in it, removes a batch, lowers a tip
\* count, makes an initialized total uninitialized, or removes a stored
\* context or the request the oracle holds for it.
C28_AppendOnly ==
    /\ [](/\ Len(tipLog) = Len(tips)
          /\ \A i \in 1..Len(tips) :
                 /\ tipLog[i][1] = "TipSubmitted"
                 /\ tipLog[i][2] = tips[i].tipper
                 /\ tipLog[i][4] = i - 1)
    /\ [][/\ Len(tips') >= Len(tips)
          /\ \A i \in 1..Len(tips) : tips'[i] = tips[i]
          /\ Len(batches') >= Len(batches)
          /\ \A b \in BatchIds :
                 /\ batchTipCount'[b] >= batchTipCount[b]
                 /\ isInitialized(batchTotalEncryptedAmount[b]) =>
                        isInitialized(batchTotalEncryptedAmount'[b])
          /\ \A r \in Requested :
                 /\ oracleRequests'[r] = oracleRequests[r]
                 /\ decryptionContexts'[r].stateHash = decryptionContexts[r].stateHash
                 /\ decryptionContexts'[r].stateHash # ZeroHash
                 /\ decryptionContexts'[r].batchId = decryptionContexts[r].batchId]_vars
\* Two records by two tippers are in the ledger, reported with indexes 0 and
\* 1, and a context is stored.
C28_Witness ==
    /\ Len(tips) = 2
    /\ tips[1].tipper # tips[2].tipper
    /\ tipLog[1][4] = 0
    /\ tipLog[2][4] = 1
    /\ Requested # {}
    /\ currentBatch.isOpen

\* ---- C29 ---------------------------------------------------------------
\* C29: a requestId for which no context was stored has the default context
\* (batchId 0, zero stateHash, unprocessed) and no DecryptionCompleted
\* event, and every callback for it, whatever the cleartexts and the proof,
\* those the oracle signed for other requests included, reverts with
\* NotInitialized.
C29_UnknownRequestRejected ==
    \A r \in RequestIds \ Requested :
        /\ decryptionContexts[r] = EmptyContext
        /\ ~isInitialized(batchTotalEncryptedAmount[decryptionContexts[r].batchId])
        /\ completions[r] = << >>
        /\ \A c \in CleartextInputs, p \in ProofInputs :
               myCallbackError(r, c, p) = "NotInitialized"
\* Request 0 was fulfilled; a callback for requestId 2, never handed out,
\* replaying the oracle's cleartexts and proof of request 0 is refused.
C29_Witness ==
    /\ 0 \in Requested
    /\ decryptionContexts[0].processed
    /\ 2 \notin Requested
    /\ myCallbackError(2, OracleCleartexts(0), KmsProof(0, OracleCleartexts(0)))
           = "NotInitialized"

\* ---- C30 ---------------------------------------------------------------
\* C30: every DecryptionRequested event has its own requestId and context;
\* two contexts for the same batch hold the same stateHash; each pending
\* one is accepted with the oracle's answer whether or not the other is
\* processed; each has at most one DecryptionCompleted event, and those of
\* the same batch report the same total; the step that fulfils one context
\* leaves every other context as it is.
C30_SameBatch ==
    {pair \in Requested \X Requested :
        /\ pair[1] # pair[2]
        /\ decryptionContexts[pair[1]].batchId = decryptionContexts[pair[2]].batchId}
C30_RepeatedRequests ==
    /\ [](/\ \A i, j \in 1..Len(requestLog) :
                 i # j => requestLog[i][2] # requestLog[j][2]
          /\ Cardinality(Requested) = Len(requestLog)
          /\ \A pair \in C30_SameBatch :
                 LET r == pair[1]
                     q == pair[2]
                 IN  /\ decryptionContexts[r].stateHash = decryptionContexts[q].stateHash
                     /\ Len(completions[r]) <= 1
                     /\ r \in C4_Pending =>
                            myCallbackError(r, OracleCleartexts(r),
                                            KmsProof(r, OracleCleartexts(r))) = "ok"
                     /\ (completions[r] # << >> /\ completions[q] # << >>) =>
                            /\ completions[r][1][3] = completions[q][1][3]
                            /\ completions[r][1][4] = completions[q][1][4])
    /\ [][\A r \in RequestIds :
            C4_Accepted(r) =>
                \A q \in RequestIds \ {r} :
                    /\ decryptionContexts'[q] = decryptionContexts[q]
                    /\ completions'[q] = completions[q]]_vars
\* Two requests were accepted for closed batch 1 and both were fulfilled:
\* two DecryptionCompleted events report batch 1.
C30_Witness ==
    /\ <<0, 1>> \in C30_SameBatch
    /\ decryptionContexts[0].batchId = 1
    /\ decryptionContexts[0].processed
    /\ decryptionContexts[1].processed
    /\ Len(completions[0]) = 1
    /\ Len(completions[1]) = 1

\* ---- C31 ---------------------------------------------------------------
\* C31: before any administration call the owner is the deployer and is a
\* provider.  A step that logs OwnershipTransferred(previous, new) starts
\* with owner = previous, ends with owner = new and changes nothing else in
\* the storage: the provider set, so that the previous owner keeps its role
\* and the new owner is a provider only if it was one, the pause flag, the
\* cooldown, the timers, the batches, the ledger and the contexts; after it
\* every address other than the new owner, the previous owner included, is
\* refused with NotOwner.  The owner changes in no other step.  A step that
\* logs ProviderRemoved(owner) leaves an owner that is not a provider.
C31_TransferFrame ==
    /\ [](adminLog = << >> => (owner = Deployer /\ isProvider[owner]))
    /\ [][/\ \A e \in C17_NewAdminEvents :
                 /\ e[1] = "OwnershipTransferred" =>
                        /\ e[2] = owner
                        /\ owner' = e[3]
                        /\ UNCHANGED <<isProvider, paused, cooldownSeconds, timers,
                                       ledger, batches, oracle, batchLog, tipLog,
                                       requestLog, completions>>
                        /\ \A s \in Address \ {e[3]} :
                               /\ onlyOwner(s)' = "NotOwner"
                               /\ pauseError(s)' = "NotOwner"
                 /\ (e[1] = "ProviderRemoved" /\ e[2] = owner) =>
                        /\ owner' = owner
                        /\ ~isProvider'[owner']
          /\ owner' # owner =>
                 \E e \in C17_NewAdminEvents : e[1] = "OwnershipTransferred"]_vars
\* The deployer handed the ownership to an address that was no provider:
\* the owner is not a provider, the deployer still is one and is refused by
\* the owner-only functions.
C31_Witness ==
    /\ adminLog = <<<<"OwnershipTransferred", Deployer, "a2">>>>
    /\ owner = "a2"
    /\ ~isProvider[owner]
    /\ isProvider[Deployer]
    /\ onlyOwner(Deployer) = "NotOwner"
    /\ pauseError(Deployer) = "NotOwner"
    /\ openBatchError(Deployer) # "NotProvider"
    /\ openBatchError(owner) = "NotProvider"

====
